---- MODULE Spec2Model ----
(***************************************************************************)
(* Model of the zircon bytecode loader (src/src/bytecode.rs), virtual      *)
(* machine (src/src/vm.rs) and command-line entry point (src/src/main.rs). *)
(*                                                                         *)
(* Text (string constants, printed lines) is a sequence of byte values.    *)
(* A Number is an IEEE-754 double, represented by its class (finite,       *)
(* infinite, NaN), its sign bit and, when finite, the exact fraction       *)
(* num/den in lowest terms.  Every finite Number the model reaches is a    *)
(* dyadic fraction of small magnitude, for which double arithmetic is      *)
(* exact (NumbersExact checks this).                                       *)
(***************************************************************************)
EXTENDS Integers, Sequences, FiniteSets, TLC

-----------------------------------------------------------------------------
(* Small arithmetic helpers *)

\* Let(x, F) is F(x), with x evaluated once, before F is applied to it.
Let(x, F(_)) == CHOOSE y \in {F(v) : v \in {x}} : TRUE

RECURSIVE Gcd(_, _)
Gcd(a, b) == IF b = 0 THEN a ELSE Let(a % b, LAMBDA r : Gcd(b, r))

RECURSIVE Pow2(_)
Pow2(k) == IF k = 0 THEN 1 ELSE 2 * Pow2(k - 1)

RECURSIVE IsPow2(_)
IsPow2(n) == IF n = 1 THEN TRUE ELSE IF n % 2 = 1 THEN FALSE ELSE IsPow2(n \div 2)

-----------------------------------------------------------------------------
(* enum Value { Number(f64), Boolean(bool), Str(String) } *)

Value(tag, cls, neg, num, den, b, s) ==
    [tag |-> tag, cls |-> cls, neg |-> neg, num |-> num, den |-> den,
     b |-> b, s |-> s]

\* A finite double with sign bit neg and magnitude num/den.
Fin(neg, num, den) ==
    LET g == Gcd(num, den)
    IN  Value("Number", "fin", neg, num \div g, den \div g, FALSE, <<>>)

Inf(neg) == Value("Number", "inf", neg, 0, 1, FALSE, <<>>)

\* The sign and payload bits of a NaN are not observable by any operation
\* of the machine (Display prints "NaN", == is false), so one NaN stands
\* for all of them.
NaN == Value("Number", "nan", FALSE, 0, 1, FALSE, <<>>)

Boolean(b) == Value("Boolean", "fin", FALSE, 0, 1, b, <<>>)

Str(s) == Value("Str", "fin", FALSE, 0, 1, FALSE, s)

IsZero(x) == x.cls = "fin" /\ x.num = 0

\* Signed numerator of a finite double.
SNum(x) == IF x.neg THEN 0 - x.num ELSE x.num

-----------------------------------------------------------------------------
(* f64 arithmetic: a + b, a - b, a * b, a / b, a % b, -a, a == b *)

f64_neg(a) == IF a.cls = "nan" THEN NaN ELSE [a EXCEPT !.neg = ~a.neg]

f64_add(a, b) ==
    IF a.cls = "nan" \/ b.cls = "nan" THEN NaN
    ELSE IF a.cls = "inf" /\ b.cls = "inf"
         THEN IF a.neg = b.neg THEN a ELSE NaN
    ELSE IF a.cls = "inf" THEN a
    ELSE IF b.cls = "inf" THEN b
    ELSE LET n == SNum(a) * b.den + SNum(b) * a.den
             d == a.den * b.den
         IN  IF n = 0 THEN Fin(a.neg /\ b.neg, 0, 1)
             ELSE IF n < 0 THEN Fin(TRUE, 0 - n, d)
             ELSE Fin(FALSE, n, d)

f64_sub(a, b) == f64_add(a, f64_neg(b))

f64_mul(a, b) ==
    LET s == (a.neg # b.neg)
    IN  IF a.cls = "nan" \/ b.cls = "nan" THEN NaN
        ELSE IF (a.cls = "inf" /\ IsZero(b)) \/ (IsZero(a) /\ b.cls = "inf") THEN NaN
        ELSE IF a.cls = "inf" \/ b.cls = "inf" THEN Inf(s)
        ELSE Fin(s, a.num * b.num, a.den * b.den)

f64_div(a, b) ==
    LET s == (a.neg # b.neg)
    IN  IF a.cls = "nan" \/ b.cls = "nan" THEN NaN
        ELSE IF a.cls = "inf" /\ b.cls = "inf" THEN NaN
        ELSE IF IsZero(a) /\ IsZero(b) THEN NaN
        ELSE IF a.cls = "inf" THEN Inf(s)
        ELSE IF b.cls = "inf" THEN Fin(s, 0, 1)
        ELSE IF IsZero(b) THEN Inf(s)
        ELSE Fin(s, a.num * b.den, a.den * b.num)

\* The remainder has the sign of the dividend (fmod).
f64_rem(a, b) ==
    IF a.cls = "nan" \/ b.cls = "nan" THEN NaN
    ELSE IF a.cls = "inf" \/ IsZero(b) THEN NaN
    ELSE IF b.cls = "inf" THEN a
    ELSE Fin(a.neg, (a.num * b.den) % (b.num * a.den), a.den * b.den)

f64_eq(a, b) ==
    IF a.cls = "nan" \/ b.cls = "nan" THEN FALSE
    ELSE IF a.cls = "inf" \/ b.cls = "inf"
         THEN a.cls = b.cls /\ a.neg = b.neg
    ELSE IF IsZero(a) \/ IsZero(b) THEN IsZero(a) /\ IsZero(b)
    ELSE a.neg = b.neg /\ a.num = b.num /\ a.den = b.den

-----------------------------------------------------------------------------
(* impl Value: the operation table.  Each operation yields either a value  *)
(* or a panic with the message of the source.                              *)

Ok(v) == [ok |-> TRUE, val |-> v, msg |-> ""]
Panic(msg) == [ok |-> FALSE, val |-> Boolean(FALSE), msg |-> msg]

BothNumbers(a, b) == a.tag = "Number" /\ b.tag = "Number"
BothBooleans(a, b) == a.tag = "Boolean" /\ b.tag = "Boolean"

add(self, other) ==
    IF BothNumbers(self, other) THEN Ok(f64_add(self, other))
    ELSE Panic("Invalid operand types for add.")

subtract(self, other) ==
    IF BothNumbers(self, other) THEN Ok(f64_sub(self, other))
    ELSE Panic("Invalid operand types for subtract.")

multiply(self, other) ==
    IF BothNumbers(self, other) THEN Ok(f64_mul(self, other))
    ELSE Panic("Invalid operand types for multiply.")

divide(self, other) ==
    IF BothNumbers(self, other) THEN Ok(f64_div(self, other))
    ELSE Panic("Invalid operand types for divide.")

modulo(self, other) ==
    IF BothNumbers(self, other) THEN Ok(f64_rem(self, other))
    ELSE Panic("Invalid operand types for modulo.")

negate(self) ==
    IF self.tag = "Number" THEN Ok(f64_neg(self))
    ELSE Panic("Invalid operand type for negate.")

logical_and(self, other) ==
    IF BothBooleans(self, other) THEN Ok(Boolean(self.b /\ other.b))
    ELSE Panic("Invalid operand types for logical and.")

logical_or(self, other) ==
    IF BothBooleans(self, other) THEN Ok(Boolean(self.b \/ other.b))
    ELSE Panic("Invalid operand types for logical or.")

logical_not(self) ==
    IF self.tag = "Boolean" THEN Ok(Boolean(~self.b))
    ELSE Panic("Invalid operand type for logical not.")

\* impl PartialEq for Value
eq(self, other) ==
    IF BothNumbers(self, other) THEN f64_eq(self, other)
    ELSE IF BothBooleans(self, other) THEN self.b = other.b
    ELSE IF self.tag = "Str" /\ other.tag = "Str" THEN self.s = other.s
    ELSE FALSE

-----------------------------------------------------------------------------
(* impl fmt::Display for Value: the text of a printed line, as bytes *)

RECURSIVE Digits(_)
Digits(n) ==
    IF n < 10 THEN <<48 + n>> ELSE Append(Digits(n \div 10), 48 + (n % 10))

\* Decimal digits of the fraction r/den, 0 <= r < den, den a divisor of a
\* power of ten.
RECURSIVE FracDigits(_, _)
FracDigits(r, den) ==
    IF r = 0 THEN <<>>
    ELSE <<48 + ((r * 10) \div den)>> \o FracDigits((r * 10) % den, den)

TextNaN == <<78, 97, 78>>
TextInf == <<105, 110, 102>>
TextTrue == <<116, 114, 117, 101>>
TextFalse == <<102, 97, 108, 115, 101>>
Minus == <<45>>
Point == <<46>>

fmt_f64(x) ==
    IF x.cls = "nan" THEN TextNaN
    ELSE (IF x.neg THEN Minus ELSE <<>>)
         \o (IF x.cls = "inf" THEN TextInf
             ELSE Digits(x.num \div x.den)
                  \o (IF x.num % x.den = 0 THEN <<>>
                      ELSE Point \o FracDigits(x.num % x.den, x.den)))

fmt(self) ==
    IF self.tag = "Number" THEN fmt_f64(self)
    ELSE IF self.tag = "Boolean" THEN (IF self.b THEN TextTrue ELSE TextFalse)
    ELSE self.s

-----------------------------------------------------------------------------
(* enum Opcode, Opcode::from_u8, Opcode::has_operand *)

Opcodes ==
    {"PushConst", "Add", "Subtract", "Multiply", "Divide", "Modulo", "Negate",
     "And", "Or", "Not", "Equal", "Jump", "JumpIfTrue", "JumpIfFalse", "Print",
     "GetLocal", "SetLocal", "Call", "Return", "Halt"}

\* The wire tag of each opcode (the enum discriminants), as <<tag, opcode>>.
OpcodeTable ==
    { <<1, "PushConst">>, <<16, "Add">>, <<17, "Subtract">>, <<18, "Multiply">>,
      <<19, "Divide">>, <<20, "Modulo">>, <<21, "Negate">>, <<32, "And">>,
      <<33, "Or">>, <<34, "Not">>, <<48, "Equal">>, <<64, "Jump">>,
      <<65, "JumpIfTrue">>, <<66, "JumpIfFalse">>, <<96, "Print">>,
      <<112, "GetLocal">>, <<113, "SetLocal">>, <<128, "Call">>,
      <<129, "Return">>, <<255, "Halt">> }

IoErr(kind, msg) == [kind |-> kind, msg |-> msg]
NoErr == IoErr("", "")

from_u8(value) ==
    IF \E e \in OpcodeTable : e[1] = value
    THEN [ok |-> TRUE, opcode |-> (CHOOSE e \in OpcodeTable : e[1] = value)[2],
          err |-> NoErr]
    ELSE [ok |-> FALSE, opcode |-> "Halt",
          err |-> IoErr("InvalidData", "Unknown opcode")]

\* has_operand without the arm of Call.
has_operand_without_call(opcode) ==
    opcode \in {"PushConst", "Jump", "JumpIfTrue", "JumpIfFalse",
                "GetLocal", "SetLocal"}

has_operand(opcode) ==
    opcode \in {"PushConst", "Jump", "JumpIfTrue", "JumpIfFalse",
                "GetLocal", "SetLocal", "Call"}

-----------------------------------------------------------------------------
(* struct Instruction, struct Function, struct Bytecode *)

\* Option<u16>: None is NoOperand.
NoOperand == -1

Instruction(opcode, operand) == [opcode |-> opcode, operand |-> operand]

Function(instructions, num_args) ==
    [instructions |-> instructions, num_args |-> num_args]

Bytecode(functions, constants) ==
    [functions |-> functions, constants |-> constants]

\* The value of the bytecode binding before from_file has returned Ok.
NoBytecode == Bytecode(<<>>, <<>>)

\* Option<&T> of a slice lookup at a 0-based index.
InRange(seq, index) == index >= 0 /\ index < Len(seq)

-----------------------------------------------------------------------------
(* Readers over the byte stream: the stream is the sequence bytes, pos is  *)
(* the number of bytes consumed.  Each reader yields the value and the new *)
(* position, or the error that `?` propagates.                             *)

Eof == IoErr("UnexpectedEof", "failed to fill whole buffer")

ReadOk(val, pos) == [ok |-> TRUE, val |-> val, pos |-> pos, err |-> NoErr]
ReadErr(pos, err) == [ok |-> FALSE, val |-> 0, pos |-> pos, err |-> err]

Slice(bytes, pos, n) == [i \in 1..n |-> bytes[pos + i]]

read_exact(bytes, pos, n) ==
    IF pos + n <= Len(bytes) THEN ReadOk(Slice(bytes, pos, n), pos + n)
    ELSE ReadErr(Len(bytes), Eof)

read_u8(bytes, pos) ==
    LET r == read_exact(bytes, pos, 1)
    IN  IF r.ok THEN ReadOk(r.val[1], r.pos) ELSE r

\* read_u16 taking the first byte as the high byte.
read_u16_big_endian(bytes, pos) ==
    LET r == read_exact(bytes, pos, 2)
    IN  IF r.ok THEN ReadOk(256 * r.val[1] + r.val[2], r.pos) ELSE r

read_u16(bytes, pos) ==
    LET r == read_exact(bytes, pos, 2)
    IN  IF r.ok THEN ReadOk(r.val[1] + 256 * r.val[2], r.pos) ELSE r

\* Counts of 2^31 and above are outside the model's integers; the streams
\* the model reads keep the top byte of every count below 128.
read_u32(bytes, pos) ==
    LET r == read_exact(bytes, pos, 4)
    IN  IF r.ok
        THEN ReadOk(r.val[1] + 256 * r.val[2] + 65536 * r.val[3]
                    + 16777216 * r.val[4], r.pos)
        ELSE r

\* f64::from_le_bytes.  Decoded exactly for zeros, infinities, NaNs and the
\* normal doubles whose low 32 mantissa bits are zero and whose binary
\* exponent lies in -8..10; the streams the model reads hold no others.
f64_from_le_bytes(bs) ==
    LET sign == bs[8] >= 128
        e    == (bs[8] % 128) * 16 + (bs[7] \div 16)
        mhi  == (bs[7] % 16) * 65536 + bs[6] * 256 + bs[5]
        mlo0 == \A i \in 1..4 : bs[i] = 0
    IN  CASE e = 2047 /\ mhi = 0 /\ mlo0 -> Inf(sign)
          [] e = 2047 /\ ~(mhi = 0 /\ mlo0) -> NaN
          [] e = 0 /\ mhi = 0 /\ mlo0 -> Fin(sign, 0, 1)
          [] e - 1023 \in (0 - 8)..10 /\ mlo0 ->
                Fin(sign, 1048576 + mhi, Pow2(20 - (e - 1023)))

read_f64(bytes, pos) ==
    LET r == read_exact(bytes, pos, 8)
    IN  IF r.ok THEN ReadOk(f64_from_le_bytes(r.val), r.pos) ELSE r

\* String::from_utf8: whether the bytes from index i on are well-formed UTF-8.
IsCont(bs, i) == i <= Len(bs) /\ bs[i] >= 128 /\ bs[i] <= 191

RECURSIVE Utf8From(_, _)
Utf8From(bs, i) ==
    IF i > Len(bs) THEN TRUE
    ELSE LET b == bs[i]
             second(lo, hi) == i + 1 <= Len(bs) /\ bs[i + 1] >= lo /\ bs[i + 1] <= hi
         IN  IF b < 128 THEN Utf8From(bs, i + 1)
             ELSE IF b >= 194 /\ b <= 223
                  THEN IsCont(bs, i + 1) /\ Utf8From(bs, i + 2)
             ELSE IF b >= 224 /\ b <= 239
                  THEN /\ IF b = 224 THEN second(160, 191)
                          ELSE IF b = 237 THEN second(128, 159)
                          ELSE second(128, 191)
                       /\ IsCont(bs, i + 2)
                       /\ Utf8From(bs, i + 3)
             ELSE IF b >= 240 /\ b <= 244
                  THEN /\ IF b = 240 THEN second(144, 191)
                          ELSE IF b = 244 THEN second(128, 143)
                          ELSE second(128, 191)
                       /\ IsCont(bs, i + 2)
                       /\ IsCont(bs, i + 3)
                       /\ Utf8From(bs, i + 4)
             ELSE FALSE

from_utf8(bs) == Utf8From(bs, 1)

-----------------------------------------------------------------------------
(* read_constant, read_function, Bytecode::from_file *)

Utf8Err == IoErr("InvalidData", "invalid utf-8 sequence")

\* read_constant yielding Boolean false for a record of unknown type.
read_constant_lenient(bytes, pos) ==
    LET type_id == read_u8(bytes, pos)
    IN  IF ~type_id.ok THEN type_id
        ELSE IF type_id.val = 1 THEN read_f64(bytes, type_id.pos)
        ELSE IF type_id.val = 2
             THEN LET b == read_u8(bytes, type_id.pos)
                  IN  IF b.ok THEN ReadOk(Boolean(b.val # 0), b.pos) ELSE b
        ELSE IF type_id.val = 3
             THEN LET len == read_u16(bytes, type_id.pos)
                  IN  IF ~len.ok THEN len
                      ELSE LET buffer == read_exact(bytes, len.pos, len.val)
                           IN  IF ~buffer.ok THEN buffer
                               ELSE IF ~from_utf8(buffer.val)
                                    THEN ReadErr(buffer.pos, Utf8Err)
                               ELSE ReadOk(Str(buffer.val), buffer.pos)
        ELSE ReadOk(Boolean(FALSE), type_id.pos)

read_constant(bytes, pos) ==
    LET type_id == read_u8(bytes, pos)
    IN  IF ~type_id.ok THEN type_id
        ELSE IF type_id.val = 1 THEN read_f64(bytes, type_id.pos)
        ELSE IF type_id.val = 2
             THEN LET b == read_u8(bytes, type_id.pos)
                  IN  IF b.ok THEN ReadOk(Boolean(b.val # 0), b.pos) ELSE b
        ELSE IF type_id.val = 3
             THEN LET len == read_u16(bytes, type_id.pos)
                  IN  IF ~len.ok THEN len
                      ELSE LET buffer == read_exact(bytes, len.pos, len.val)
                           IN  IF ~buffer.ok THEN buffer
                               ELSE IF ~from_utf8(buffer.val)
                                    THEN ReadErr(buffer.pos, Utf8Err)
                               ELSE ReadOk(Str(buffer.val), buffer.pos)
        ELSE ReadErr(type_id.pos, IoErr("InvalidData", "Unknown constant type"))

\* One iteration of the instruction loop of read_function.
read_instruction(bytes, pos) ==
    LET tag == read_u8(bytes, pos)
    IN  IF ~tag.ok THEN tag
        ELSE LET opcode == from_u8(tag.val)
             IN  IF ~opcode.ok THEN ReadErr(tag.pos, opcode.err)
                 ELSE IF has_operand(opcode.opcode)
                      THEN LET operand == read_u16(bytes, tag.pos)
                           IN  IF ~operand.ok THEN operand
                               ELSE ReadOk(Instruction(opcode.opcode, operand.val),
                                           operand.pos)
                 ELSE ReadOk(Instruction(opcode.opcode, NoOperand), tag.pos)

\* `for _ in 0..n { acc.push(read(reader)?) }` for the three loops of the
\* loader; what names the record read: "constant", "instruction", "function".
RECURSIVE read_function(_, _)
RECURSIVE ReadMany(_, _, _, _, _)
ReadMany(what, bytes, pos, n, acc) ==
    IF n = 0 THEN ReadOk(acc, pos)
    ELSE Let(CASE what = "constant" -> read_constant(bytes, pos)
               [] what = "instruction" -> read_instruction(bytes, pos)
               [] what = "function" -> read_function(bytes, pos),
             LAMBDA r :
                IF ~r.ok THEN r
                ELSE Let(Append(acc, r.val),
                         LAMBDA acc1 : ReadMany(what, bytes, r.pos, n - 1, acc1)))

read_function(bytes, pos) ==
    Let(read_u32(bytes, pos), LAMBDA num_instructions :
    IF ~num_instructions.ok THEN num_instructions
    ELSE
    Let(read_u32(bytes, num_instructions.pos), LAMBDA num_args :
    IF ~num_args.ok THEN num_args
    ELSE
    Let(ReadMany("instruction", bytes, num_args.pos, num_instructions.val, <<>>),
        LAMBDA instructions :
    IF ~instructions.ok THEN instructions
    ELSE ReadOk(Function(instructions.val, num_args.val), instructions.pos))))

Magic == <<90, 82, 67, 78>>

\* The file is either absent (File::open fails) or a byte sequence.
NoFile == <<-1>>
NotFound == IoErr("NotFound", "No such file or directory")

from_file(path) ==
    IF path = NoFile THEN ReadErr(0, NotFound)
    ELSE
    Let(read_exact(path, 0, 4), LAMBDA magic :
    IF ~magic.ok THEN magic
    ELSE IF magic.val # Magic
         THEN ReadErr(magic.pos, IoErr("InvalidData", "Invalid magic number"))
    ELSE
    Let(read_u8(path, magic.pos), LAMBDA version :
    IF ~version.ok THEN version
    ELSE IF version.val # 1
         THEN ReadErr(version.pos, IoErr("InvalidData", "Unsupported version"))
    ELSE
    Let(read_u32(path, version.pos), LAMBDA num_constants :
    IF ~num_constants.ok THEN num_constants
    ELSE
    Let(ReadMany("constant", path, num_constants.pos, num_constants.val, <<>>),
        LAMBDA constants :
    IF ~constants.ok THEN constants
    ELSE
    Let(read_u32(path, constants.pos), LAMBDA num_functions :
    IF ~num_functions.ok THEN num_functions
    ELSE
    Let(ReadMany("function", path, num_functions.pos, num_functions.val, <<>>),
        LAMBDA functions :
    IF ~functions.ok THEN functions
    ELSE ReadOk(Bytecode(functions.val, constants.val), functions.pos)))))))

-----------------------------------------------------------------------------
(* State *)

VARIABLES
    argc,         \* main: args.len()
    file,         \* the content of the file named by args[1], or NoFile
    pc,           \* position of main: "main", "run" (inside the loop of
                  \* VirtualMachine::run), "exited"
    bytecode,     \* main: the loaded Bytecode
    frames,       \* VirtualMachine.frames
    is_running,   \* VirtualMachine.is_running
    instruction,  \* run: the instruction fetched by the latest iteration,
                  \* with the function index and pointer it was fetched at
    stdout,       \* lines written by println!
    stderr,       \* diagnostics written by eprintln! and by the panic hook
    exit_status   \* "none" while running; "success" when main returned;
                  \* "failure" when the process ended by a panic (status 101)

vars == <<argc, file, pc, bytecode, frames, is_running, instruction,
          stdout, stderr, exit_status>>

-----------------------------------------------------------------------------
(* struct CallFrame *)

\* HashMap::new()
EmptyLocals == [k \in {} |-> Boolean(FALSE)]

CallFrame(func_index) ==
    [instruction_pointer |-> 0, function_index |-> func_index,
     stack |-> <<>>, locals |-> EmptyLocals]

\* CallFrame::set_local: HashMap::insert
frame_set_local(frame, index, value) ==
    [frame EXCEPT !.locals =
        [k \in (DOMAIN @) \cup {index} |-> IF k = index THEN value ELSE @[k]]]

-----------------------------------------------------------------------------
(* impl VirtualMachine: the helpers, as functions of the call stack fs.    *)
(* VmRes(fs, msg) is the call stack an operation leaves and the message of *)
(* the panic that ended it ("" when it completed).                         *)

VmRes(fs, msg) == [frames |-> fs, msg |-> msg]

current_frame(fs) == fs[Len(fs)]

WithCurrent(fs, frame) == [fs EXCEPT ![Len(fs)] = frame]

is_call_stack_empty(fs) == fs = <<>>

is_operand_stack_empty(fs) ==
    IF fs # <<>> THEN current_frame(fs).stack = <<>> ELSE TRUE

push_operand(fs, value) ==
    WithCurrent(fs, [current_frame(fs) EXCEPT !.stack = Append(@, value)])

\* The value pop_operand returns, and the call stack it leaves, when the
\* operand stack of the current frame is not empty.
top_operand(fs) == current_frame(fs).stack[Len(current_frame(fs).stack)]

drop_operand(fs) ==
    WithCurrent(fs, [current_frame(fs) EXCEPT !.stack = SubSeq(@, 1, Len(@) - 1)])

Underflow == "Stack underflow."

\* set_local on locals shared by all the frames of the call stack.
set_local_shared(fs, index, value) ==
    [k \in 1..Len(fs) |-> frame_set_local(fs[k], index, value)]

set_local(fs, index, value) ==
    WithCurrent(fs, frame_set_local(current_frame(fs), index, value))

\* get_local yielding Boolean false for a slot that is not bound.
get_local_or_default(fs, index) ==
    IF index \in DOMAIN current_frame(fs).locals
    THEN Ok(current_frame(fs).locals[index])
    ELSE Ok(Boolean(FALSE))

get_local(fs, index) ==
    IF index \in DOMAIN current_frame(fs).locals
    THEN Ok(current_frame(fs).locals[index])
    ELSE Panic("Local variable not found.")

unary_op(fs, opcode) ==
    IF is_operand_stack_empty(fs) THEN VmRes(fs, Underflow)
    ELSE LET val == top_operand(fs)
             fs1 == drop_operand(fs)
             result == CASE opcode = "Not" -> logical_not(val)
                         [] opcode = "Negate" -> negate(val)
                         [] OTHER -> Panic("Invalid opcode for unary operation.")
         IN  IF result.ok THEN VmRes(push_operand(fs1, result.val), "")
             ELSE VmRes(fs1, result.msg)

\* binary_op with the operands exchanged: the value popped first taken as
\* the left operand.
binary_op_swapped(fs, opcode) ==
    IF is_operand_stack_empty(fs) THEN VmRes(fs, Underflow)
    ELSE LET val1 == top_operand(fs)
             fs1 == drop_operand(fs)
         IN  IF is_operand_stack_empty(fs1) THEN VmRes(fs1, Underflow)
             ELSE LET val2 == top_operand(fs1)
                      fs2 == drop_operand(fs1)
                      result ==
                          CASE opcode = "Add" -> add(val1, val2)
                            [] opcode = "Subtract" -> subtract(val1, val2)
                            [] opcode = "Multiply" -> multiply(val1, val2)
                            [] opcode = "Divide" -> divide(val1, val2)
                            [] opcode = "Modulo" -> modulo(val1, val2)
                            [] opcode = "And" -> logical_and(val1, val2)
                            [] opcode = "Or" -> logical_or(val1, val2)
                            [] OTHER -> Panic("Invalid opcode for binary operation.")
                  IN  IF result.ok THEN VmRes(push_operand(fs2, result.val), "")
                      ELSE VmRes(fs2, result.msg)

binary_op(fs, opcode) ==
    IF is_operand_stack_empty(fs) THEN VmRes(fs, Underflow)
    ELSE LET val2 == top_operand(fs)
             fs1 == drop_operand(fs)
         IN  IF is_operand_stack_empty(fs1) THEN VmRes(fs1, Underflow)
             ELSE LET val1 == top_operand(fs1)
                      fs2 == drop_operand(fs1)
                      result ==
                          CASE opcode = "Add" -> add(val1, val2)
                            [] opcode = "Subtract" -> subtract(val1, val2)
                            [] opcode = "Multiply" -> multiply(val1, val2)
                            [] opcode = "Divide" -> divide(val1, val2)
                            [] opcode = "Modulo" -> modulo(val1, val2)
                            [] opcode = "And" -> logical_and(val1, val2)
                            [] opcode = "Or" -> logical_or(val1, val2)
                            [] OTHER -> Panic("Invalid opcode for binary operation.")
                  IN  IF result.ok THEN VmRes(push_operand(fs2, result.val), "")
                      ELSE VmRes(fs2, result.msg)

handle_jump(fs, target) ==
    WithCurrent(fs, [current_frame(fs) EXCEPT !.instruction_pointer = target])

-----------------------------------------------------------------------------
(* Bytecode::get_function, Bytecode::get_constant, Function::get_instruction *)

get_function(bc, index) ==
    IF InRange(bc.functions, index) THEN Ok(bc.functions[index + 1])
    ELSE Panic("Invalid function index")

\* get_constant yielding the last constant for an index past the end of a
\* pool that is not empty.
get_constant_clamped(bc, index) ==
    IF InRange(bc.constants, index) THEN Ok(bc.constants[index + 1])
    ELSE IF bc.constants # <<>> THEN Ok(bc.constants[Len(bc.constants)])
    ELSE Panic("Constant index out of range.")

get_constant(bc, index) ==
    IF InRange(bc.constants, index) THEN Ok(bc.constants[index + 1])
    ELSE Panic("Constant index out of range.")

\* get_instruction yielding a halt past the end of the function.
get_instruction_or_halt(function, index) ==
    IF InRange(function.instructions, index) THEN Ok(function.instructions[index + 1])
    ELSE Ok(Instruction("Halt", NoOperand))

get_instruction(function, index) ==
    IF InRange(function.instructions, index) THEN Ok(function.instructions[index + 1])
    ELSE Panic("Invalid instruction index")

\* Instruction::operand
operand_of(instr) ==
    IF instr.operand # NoOperand THEN Ok(instr.operand)
    ELSE Panic("Instruction has no operand")

-----------------------------------------------------------------------------
(* VirtualMachine::run: the arms of the dispatch.  fs is the call stack    *)
(* after advance_instruction_pointer.                                      *)

run_push_const(bc, fs, operand) ==
    LET constant == get_constant(bc, operand)
    IN  IF constant.ok THEN VmRes(push_operand(fs, constant.val), "")
        ELSE VmRes(fs, constant.msg)

\* run_equal refusing to compare values of different variants.
run_equal_strict(fs) ==
    IF is_operand_stack_empty(fs) THEN VmRes(fs, Underflow)
    ELSE LET val2 == top_operand(fs)
             fs1 == drop_operand(fs)
         IN  IF is_operand_stack_empty(fs1) THEN VmRes(fs1, Underflow)
             ELSE LET val1 == top_operand(fs1)
                      fs2 == drop_operand(fs1)
                  IN  IF val1.tag # val2.tag
                      THEN VmRes(fs2, "Invalid operand types for equal.")
                      ELSE VmRes(push_operand(fs2, Boolean(eq(val1, val2))), "")

run_equal(fs) ==
    IF is_operand_stack_empty(fs) THEN VmRes(fs, Underflow)
    ELSE LET val2 == top_operand(fs)
             fs1 == drop_operand(fs)
         IN  IF is_operand_stack_empty(fs1) THEN VmRes(fs1, Underflow)
             ELSE LET val1 == top_operand(fs1)
                      fs2 == drop_operand(fs1)
                  IN  VmRes(push_operand(fs2, Boolean(eq(val1, val2))), "")

run_jump_if_true(fs, operand) ==
    IF is_operand_stack_empty(fs) THEN VmRes(fs, Underflow)
    ELSE LET val == top_operand(fs)
             fs1 == drop_operand(fs)
         IN  IF val.tag = "Boolean" /\ val.b = TRUE
             THEN VmRes(handle_jump(fs1, operand), "")
             ELSE VmRes(fs1, "")

\* run_jump_if_false taking the operand as an offset from the advanced
\* pointer.
run_jump_if_false_relative(fs, operand) ==
    IF is_operand_stack_empty(fs) THEN VmRes(fs, Underflow)
    ELSE LET val == top_operand(fs)
             fs1 == drop_operand(fs)
         IN  IF val.tag = "Boolean" /\ val.b = FALSE
             THEN VmRes(handle_jump(fs1, current_frame(fs1).instruction_pointer
                                         + operand), "")
             ELSE VmRes(fs1, "")

run_jump_if_false(fs, operand) ==
    IF is_operand_stack_empty(fs) THEN VmRes(fs, Underflow)
    ELSE LET val == top_operand(fs)
             fs1 == drop_operand(fs)
         IN  IF val.tag = "Boolean" /\ val.b = FALSE
             THEN VmRes(handle_jump(fs1, operand), "")
             ELSE VmRes(fs1, "")

\* Print: the call stack left, and the line printed (when no panic).
run_print(fs) ==
    IF is_operand_stack_empty(fs) THEN VmRes(fs, Underflow)
    ELSE VmRes(drop_operand(fs), "")

printed_line(fs) == fmt(top_operand(fs))

run_get_local(fs, operand) ==
    LET val == get_local(fs, operand)
    IN  IF val.ok THEN VmRes(push_operand(fs, val.val), "")
        ELSE VmRes(fs, val.msg)

run_set_local(fs, operand) ==
    IF is_operand_stack_empty(fs) THEN VmRes(fs, Underflow)
    ELSE VmRes(set_local(drop_operand(fs), operand, top_operand(fs)), "")

\* bind_args binding the value popped first to slot 0.
RECURSIVE bind_args_reversed(_, _, _, _)
bind_args_reversed(fs, new_frame, num_args, i) ==
    IF i >= num_args THEN VmRes(Append(fs, new_frame), "")
    ELSE IF is_operand_stack_empty(fs) THEN VmRes(fs, Underflow)
    ELSE bind_args_reversed(drop_operand(fs),
                            frame_set_local(new_frame, i, top_operand(fs)),
                            num_args, i + 1)

\* bind_args leaving the arguments that are missing unbound.
RECURSIVE bind_args_partial(_, _, _, _)
bind_args_partial(fs, new_frame, num_args, i) ==
    IF i >= num_args THEN VmRes(Append(fs, new_frame), "")
    ELSE IF is_operand_stack_empty(fs) THEN VmRes(Append(fs, new_frame), "")
    ELSE bind_args_partial(drop_operand(fs),
                           frame_set_local(new_frame, num_args - i - 1,
                                           top_operand(fs)),
                           num_args, i + 1)

\* `for i in 0..num_args`: iteration i and those after it.
RECURSIVE bind_args(_, _, _, _)
bind_args(fs, new_frame, num_args, i) ==
    IF i >= num_args THEN VmRes(Append(fs, new_frame), "")
    ELSE IF is_operand_stack_empty(fs) THEN VmRes(fs, Underflow)
    ELSE bind_args(drop_operand(fs),
                   frame_set_local(new_frame, num_args - i - 1, top_operand(fs)),
                   num_args, i + 1)

run_call(bc, fs, operand) ==
    LET func_to_call == get_function(bc, operand)
    IN  IF ~func_to_call.ok THEN VmRes(fs, func_to_call.msg)
        ELSE bind_args(fs, CallFrame(operand), func_to_call.val.num_args, 0)

\* pop_frame, on a call stack that is not empty.
pop_frame(fs) == SubSeq(fs, 1, Len(fs) - 1)

\* run_return pushing the return value onto the stack of the entry frame.
run_return_to_entry(fs) ==
    LET return_value == IF ~is_operand_stack_empty(fs) THEN top_operand(fs)
                        ELSE Boolean(FALSE)
        fs1 == pop_frame(fs)
    IN  IF ~is_call_stack_empty(fs1)
        THEN VmRes([fs1 EXCEPT ![1].stack = Append(@, return_value)], "")
        ELSE VmRes(fs1, "")

\* run_return taking the return of the last frame for a call stack
\* underflow.
run_return_strict(fs) ==
    LET return_value == IF ~is_operand_stack_empty(fs) THEN top_operand(fs)
                        ELSE Boolean(FALSE)
        fs1 == pop_frame(fs)
    IN  IF ~is_call_stack_empty(fs1) THEN VmRes(push_operand(fs1, return_value), "")
        ELSE VmRes(fs1, "Call stack underflow.")

\* run_return that pushes nothing for a frame that returns with an empty
\* stack.
run_return_no_default(fs) ==
    LET fs1 == pop_frame(fs)
    IN  IF ~is_call_stack_empty(fs1) /\ ~is_operand_stack_empty(fs)
        THEN VmRes(push_operand(fs1, top_operand(fs)), "")
        ELSE VmRes(fs1, "")

run_return(fs) ==
    LET return_value == IF ~is_operand_stack_empty(fs) THEN top_operand(fs)
                        ELSE Boolean(FALSE)
        fs1 == pop_frame(fs)
    IN  IF ~is_call_stack_empty(fs1) THEN VmRes(push_operand(fs1, return_value), "")
        ELSE VmRes(fs1, "")

-----------------------------------------------------------------------------
(* The module files the model runs.  A module is written down as its       *)
(* constant records (already encoded: tag byte and payload) and its        *)
(* functions, and encoded to the byte layout that from_file reads.         *)

U16(n) == <<n % 256, n \div 256>>
U32(n) == <<n % 256, (n \div 256) % 256, (n \div 65536) % 256, n \div 16777216>>

\* The concatenation of the sequences seqs[i], seqs[i + 1], ...
RECURSIVE ConcatFrom(_, _)
ConcatFrom(seqs, i) ==
    IF i > Len(seqs) THEN <<>> ELSE seqs[i] \o ConcatFrom(seqs, i + 1)

Concat(seqs) == Let(seqs, LAMBDA s : ConcatFrom(s, 1))

TagOf(opcode) == (CHOOSE e \in OpcodeTable : e[2] = opcode)[1]

EncodeInstruction(instr) ==
    <<TagOf(instr.opcode)>>
    \o (IF instr.operand = NoOperand THEN <<>> ELSE U16(instr.operand))

EncodeFunction(f) ==
    U32(Len(f.instructions)) \o U32(f.num_args)
    \o Concat([i \in 1..Len(f.instructions) |-> EncodeInstruction(f.instructions[i])])

EncodeModule(consts, functions) ==
    Magic \o <<1>>
    \o U32(Len(consts)) \o Concat(consts)
    \o U32(Len(functions))
    \o Concat([i \in 1..Len(functions) |-> EncodeFunction(functions[i])])

\* Constant records: 10.0, 5.0, 0.0, NaN, true, false, "a", "é".
KNum10 == <<1, 0, 0, 0, 0, 0, 0, 36, 64>>
KNum5 == <<1, 0, 0, 0, 0, 0, 0, 20, 64>>
KNum0 == <<1, 0, 0, 0, 0, 0, 0, 0, 0>>
KNaN == <<1, 0, 0, 0, 0, 0, 0, 248, 127>>
KTrue == <<2, 1>>
KFalse == <<2, 0>>
KStrA == <<3, 1, 0, 97>>
KStrE == <<3, 2, 0, 195, 169>>

ConstRecords == {KNum10, KNum5, KNum0, KNaN, KTrue, KFalse, KStrA, KStrE}
ConstFew == {KNum10, KNum5, KTrue, KStrA}

Ins(opcode) == Instruction(opcode, NoOperand)
Push(n) == Instruction("PushConst", n)

BinaryOps == {"Add", "Subtract", "Multiply", "Divide", "Modulo", "And", "Or"}

\* Every instruction, the operand-carrying ones with each operand of Operands.
Operands == {0, 1, 2, 7}
AllInstructions ==
    {Ins(op) : op \in {o \in Opcodes : ~has_operand(o)}}
    \cup {Instruction(op, n) : op \in {o \in Opcodes : has_operand(o)}, n \in Operands}

\* A one-argument function returning its argument.
Identity == Function(<<Instruction("GetLocal", 0), Ins("Return")>>, 1)

\* Family 1: one instruction executed on a stack of depth 0, 1 or 2 (and on
\* a stack with one more value below its two operands), then print, halt.
Pushes(d) ==
    CASE d = 0 -> <<>>
      [] d = 1 -> <<Push(0)>>
      [] d = 2 -> <<Push(0), Push(1)>>
      [] d = 3 -> <<Push(1), Push(0), Push(1)>>

SingleFiles ==
    { EncodeModule(<<a, b>>,
                   <<Function(Pushes(d) \o <<i, Ins("Print"), Ins("Halt")>>, 0),
                     Identity>>) :
        a \in ConstRecords, b \in ConstRecords, i \in AllInstructions, d \in 2..3 }
    \cup
    { EncodeModule(<<a, KNum5>>,
                   <<Function(Pushes(1) \o <<i, Ins("Print"), Ins("Halt")>>, 0),
                     Identity>>) :
        a \in ConstRecords, i \in AllInstructions }
    \cup
    { EncodeModule(<<a>>,
                   <<Function(<<i, Ins("Print"), Ins("Halt")>>, 0), Identity>>) :
        a \in ConstFew, i \in AllInstructions }

\* Family 2: a caller that pushes two values and calls function 1, which
\* declares n arguments, for several callee bodies.
GetL(n) == Instruction("GetLocal", n)
SetL(n) == Instruction("SetLocal", n)
CallF(n) == Instruction("Call", n)

CalleeBodies ==
    { <<GetL(s), Ins("Return")>> : s \in 0..2 }
    \cup
    { <<Ins("Return")>>,
      <<Ins("Halt")>>,
      <<GetL(0)>>,
      <<GetL(0), GetL(1), Ins("Subtract"), Ins("Return")>>,
      <<Push(0), Push(1), Ins("Return")>>,
      <<Push(1), SetL(0), GetL(0), Ins("Return")>>,
      <<Push(1), SetL(2), GetL(2), Ins("Return")>>,
      <<GetL(0), Ins("Print"), Ins("Return")>> }

CallerBodies ==
    { <<Push(0), Push(1), CallF(1), Ins("Print"), Ins("Halt")>>,
      <<Push(0), SetL(0), Push(0), Push(1), CallF(1), GetL(0),
        Ins("Print"), Ins("Print"), Ins("Return")>> }

CallFiles ==
    { EncodeModule(<<a, b>>, <<Function(caller, 0), Function(callee, n)>>) :
        a \in ConstFew, b \in ConstFew, caller \in CallerBodies,
        callee \in CalleeBodies, n \in 0..3 }

\* Family 3: calls nested three frames deep.
InnerBodies ==
    { <<GetL(0), GetL(1), Ins("Equal"), Ins("Return")>>,
      <<Ins("Halt")>>,
      <<Ins("Return")>>,
      <<GetL(2), Ins("Return")>>,
      <<GetL(1)>> }

NestedFiles ==
    { EncodeModule(<<a, b>>,
                   <<Function(<<Push(0), CallF(1), Ins("Print"), Ins("Halt")>>, 0),
                     Function(<<GetL(0), Push(1), CallF(2), Ins("Return")>>, 1),
                     Function(inner, 2)>>) :
        a \in ConstFew, b \in ConstFew, inner \in InnerBodies }

\* Family 4: function 1 is activated twice; the first activation writes slot
\* 1, the second reads slot 1 without having written it.
ReactivationFile ==
    EncodeModule(<<KFalse, KTrue>>,
                 <<Function(<<Push(0), CallF(1), CallF(1), Ins("Print"),
                              Ins("Halt")>>, 0),
                   Function(<<GetL(0), Instruction("JumpIfFalse", 4), GetL(1),
                              Ins("Return"), Push(1), SetL(1), Push(1),
                              Ins("Return")>>, 1)>>)

\* Family 5: a module without functions, and modules whose entry function is
\* empty.
DegenerateFiles ==
    { EncodeModule(<<KNum10>>, <<>>),
      EncodeModule(<<>>, <<Function(<<>>, 0)>>),
      EncodeModule(<<>>, <<Function(<<>>, 2), Identity>>) }

\* Family 6: streams that do not match the layout: every proper prefix of a
\* well-formed module, and that module with one element replaced.
BaseFile ==
    EncodeModule(<<KNum10, KTrue, KStrE>>,
                 <<Function(<<Push(0), Ins("Print"), Ins("Halt")>>, 0)>>)

Patch(bytes, i, v) == [bytes EXCEPT ![i] = v]

MalformedFiles ==
    { SubSeq(BaseFile, 1, k) : k \in 0..(Len(BaseFile) - 1) }
    \cup { Patch(BaseFile, i, 0) : i \in 1..4 }
    \cup { Patch(BaseFile, 5, v) : v \in {0, 2} }
    \cup { Patch(Patch(BaseFile, 1, 0), 5, 2) }
    \cup { EncodeModule(<<KNum10, k>>, <<Function(<<Push(0), Ins("Halt")>>, 0)>>) :
             k \in { <<0>>, <<4, 1>>, <<255>>,
                     <<3, 2, 0, 195, 40>>, <<3, 1, 0, 169>>, <<3, 1, 0, 255>>,
                     <<3, 3, 0, 237, 160, 128>>, <<3, 2, 0, 192, 128>> } }
    \cup { Patch(BaseFile, Len(BaseFile), 254),
           Patch(BaseFile, Len(BaseFile) - 1, 2) }

\* The scenario of the specification: push 10; push 5; subtract; print; halt.
ScenarioFile ==
    EncodeModule(<<KNum10, KNum5>>,
                 <<Function(<<Push(0), Push(1), Ins("Subtract"), Ins("Print"),
                              Ins("Halt")>>, 0)>>)

\* Family 7: modules written down in full, to compare what is loaded with
\* what was written: every constant pool of at most two of the constant
\* records, and the pool of all eight, with each of three function tables.
\* The first table holds every opcode, with operands whose two bytes differ.
EveryOpcodeBody ==
    <<Ins("Halt"), Push(258), Ins("Add"), Ins("Subtract"), Ins("Multiply"),
      Ins("Divide"), Ins("Modulo"), Ins("Negate"), Ins("And"), Ins("Or"),
      Ins("Not"), Ins("Equal"), Instruction("Jump", 65535),
      Instruction("JumpIfTrue", 256), Instruction("JumpIfFalse", 255),
      Ins("Print"), GetL(1), SetL(0), CallF(513), Ins("Return"), Ins("Halt")>>

WrittenPools ==
    { <<>>,
      <<KNum10, KNum5, KNum0, KNaN, KTrue, KFalse, KStrA, KStrE>> }
    \cup { <<a>> : a \in ConstRecords }
    \cup { <<a, b>> : a \in ConstRecords, b \in ConstRecords }

WrittenTables ==
    { <<>>,
      <<Function(EveryOpcodeBody, 0)>>,
      <<Function(<<Ins("Halt")>>, 3), Function(<<>>, 0), Identity>> }

\* Each written module with the bytes of its file.
WrittenModules ==
    { [consts |-> c, functions |-> f, bytes |-> EncodeModule(c, f)] :
        c \in WrittenPools, f \in WrittenTables }

WrittenFiles == { m.bytes : m \in WrittenModules }

\* Family 8: entry functions that hold a constant index, a function index
\* or a jump target out of range, run with constant 0 true (the instruction
\* is not reached, or the jump to the target is not taken) and false.
UnreachedBodies ==
    { <<Ins("Halt"), Push(9), Instruction("Jump", 9), CallF(9)>>,
      <<Ins("Return"), Push(9), Instruction("Jump", 9), CallF(9)>>,
      <<Push(0), Instruction("JumpIfTrue", 3), Push(9), Ins("Halt")>>,
      <<Push(0), Instruction("JumpIfTrue", 3), CallF(9), Ins("Halt")>>,
      <<Push(0), Instruction("JumpIfFalse", 9), Ins("Halt")>>,
      <<Instruction("Jump", 2), Instruction("Jump", 9), Ins("Return")>> }

UnreachedFiles ==
    { EncodeModule(<<KTrue>>, <<Function(body, 0)>>) : body \in UnreachedBodies }

ReachedFiles ==
    { EncodeModule(<<KFalse>>, <<Function(body, 0)>>) : body \in UnreachedBodies }
    \cup { EncodeModule(<<>>, <<Function(<<Instruction("Jump", 1)>>, 0)>>) }

\* Family 9: streams with two invalid elements, or with an invalid element
\* and nothing after it.  In BaseFile the tag of constant 0 is byte 10, the
\* bytes of the string constant are bytes 24 and 25, and the opcodes of the
\* last two instructions are the last two bytes.
TwiceMalformedFiles ==
    { Patch(Patch(BaseFile, 5, 2), 10, 9),
      Patch(Patch(BaseFile, 10, 9), Len(BaseFile), 254),
      Patch(Patch(BaseFile, 1, 0), Len(BaseFile), 254),
      SubSeq(Patch(BaseFile, 10, 9), 1, 12),
      SubSeq(Patch(BaseFile, 1, 0), 1, 4),
      Patch(Patch(BaseFile, Len(BaseFile) - 1, 2), Len(BaseFile), 254),
      Patch(Patch(BaseFile, 25, 40), Len(BaseFile), 254) }

\* Family 10: the entry function prints, leaves one value on its stack and
\* calls function 1 with one argument; function 1 executes an instruction
\* that needs more values than its own stack holds.
UnderflowOps ==
    { Ins(op) : op \in BinaryOps \cup {"Equal", "Negate", "Not", "Print"} }
    \cup { Instruction("JumpIfTrue", 0), Instruction("JumpIfFalse", 0),
           SetL(0), CallF(2) }

UnderflowBodies ==
    { <<i>> : i \in UnderflowOps }
    \cup { <<GetL(0), Ins(op)>> : op \in BinaryOps \cup {"Equal"} }
    \cup { <<GetL(0), CallF(2)>> }

UnderflowFiles ==
    { EncodeModule(<<KNum10, KNum5>>,
                   <<Function(<<Push(0), Ins("Print"), Push(0), Push(1), CallF(1),
                                Ins("Print"), Ins("Halt")>>, 0),
                     Function(body, 1),
                     Function(<<Ins("Return")>>, 2)>>) :
        body \in UnderflowBodies }

\* Family 11: function 1 calls itself.  Called with true it binds slot 1,
\* calls itself with false, prints its slot 1 and returns what the inner
\* activation returned; called with false it writes slots 1 and 0 and
\* returns false.
RecursiveFile ==
    EncodeModule(<<KTrue, KFalse>>,
                 <<Function(<<Push(0), CallF(1), Ins("Print"), Ins("Halt")>>, 0),
                   Function(<<GetL(0), Instruction("JumpIfFalse", 9),
                              Push(0), SetL(1), Push(1), CallF(1),
                              GetL(1), Ins("Print"), Ins("Return"),
                              Push(1), SetL(1), Push(1), SetL(0), GetL(0),
                              Ins("Return")>>, 1)>>)

\* The caller binds slot 0, calls function 1 with one argument; function 1
\* writes its own slot 0 and returns it; the caller prints its slot 0 and
\* what was returned.
SameSlotFile ==
    EncodeModule(<<KNum10, KNum5>>,
                 <<Function(<<Push(0), SetL(0), Push(0), Push(1), CallF(1),
                              GetL(0), Ins("Print"), Ins("Print"),
                              Ins("Return")>>, 0),
                   Function(<<Push(1), SetL(0), GetL(0), Ins("Return")>>, 1)>>)

InputFiles ==
    UnderflowFiles \cup {RecursiveFile, SameSlotFile}
    \cup SingleFiles \cup CallFiles \cup NestedFiles \cup {ReactivationFile}
    \cup DegenerateFiles \cup MalformedFiles \cup {BaseFile, ScenarioFile}
    \cup WrittenFiles \cup UnreachedFiles \cup ReachedFiles
    \cup TwiceMalformedFiles

-----------------------------------------------------------------------------
(* Bounds of the exploration: a run is followed while the call stack, the  *)
(* current operand stack and the output are within them.                   *)

MaxFrames == 4
MaxStack == 4
MaxOutput == 3

WithinBounds ==
    /\ Len(frames) <= MaxFrames
    /\ Len(current_frame(frames).stack) <= MaxStack
    /\ Len(stdout) <= MaxOutput

-----------------------------------------------------------------------------
(* Initial state: the process has started, main has not run yet.  The      *)
(* fields of the machine hold the values VirtualMachine::new gives them.   *)

NoInstruction ==
    [function_index |-> 0, pointer |-> 0, opcode |-> "none", operand |-> NoOperand]

Diag(kind, msg) == [kind |-> kind, msg |-> msg]

Init ==
    /\ argc \in {1, 2}
    /\ file \in IF argc = 1 THEN {NoFile} ELSE InputFiles \cup {NoFile}
    /\ pc = "main"
    /\ bytecode = NoBytecode
    /\ frames = <<>>
    /\ is_running = TRUE
    /\ instruction = NoInstruction
    /\ stdout = <<>>
    /\ stderr = <<>>
    /\ exit_status = "none"

-----------------------------------------------------------------------------
(* main *)

\* args.len() < 2: print the usage line and return.
MainUsage ==
    /\ pc = "main"
    /\ argc < 2
    /\ stderr' = Append(stderr, Diag("usage", "Usage: <bytecode_file>"))
    /\ pc' = "exited"
    /\ exit_status' = "success"
    /\ UNCHANGED <<argc, file, bytecode, frames, is_running, instruction, stdout>>

\* MainLoadErr going on to construct and run the machine, on an empty
\* Program, after printing the failure.
MainLoadErrThenRun ==
    /\ pc = "main"
    /\ argc >= 2
    /\ ~from_file(file).ok
    /\ stderr' = Append(stderr, Diag("load", from_file(file).err.msg))
    /\ is_running' = TRUE
    /\ frames' = Append(<<>>, CallFrame(0))
    /\ pc' = "run"
    /\ UNCHANGED <<argc, file, bytecode, instruction, stdout, exit_status>>

\* from_file returned Err(e): print the failure and return.
MainLoadErr ==
    /\ pc = "main"
    /\ argc >= 2
    /\ ~from_file(file).ok
    /\ stderr' = Append(stderr, Diag("load", from_file(file).err.msg))
    /\ pc' = "exited"
    /\ exit_status' = "success"
    /\ UNCHANGED <<argc, file, bytecode, frames, is_running, instruction, stdout>>

\* from_file returned Ok(bytecode): VirtualMachine::new, then run up to the
\* head of its loop (the entry frame is pushed).
MainLoadOk ==
    /\ pc = "main"
    /\ argc >= 2
    /\ from_file(file).ok
    /\ bytecode' = from_file(file).val
    /\ is_running' = TRUE
    /\ frames' = Append(<<>>, CallFrame(0))
    /\ pc' = "run"
    /\ UNCHANGED <<argc, file, instruction, stdout, stderr, exit_status>>

-----------------------------------------------------------------------------
(* VirtualMachine::run: one iteration of the loop per action *)

\* The loop condition without the is_running test.
RunningAfterHalt ==
    /\ pc = "run"
    /\ ~is_call_stack_empty(frames)
    /\ WithinBounds

Running ==
    /\ pc = "run"
    /\ ~is_call_stack_empty(frames)
    /\ is_running
    /\ WithinBounds

FetchFunction == get_function(bytecode, current_frame(frames).function_index)

FetchInstruction ==
    get_instruction(FetchFunction.val, current_frame(frames).instruction_pointer)

Fetches(opcode) ==
    /\ Running
    /\ FetchFunction.ok
    /\ FetchInstruction.ok
    /\ FetchInstruction.val.opcode = opcode

\* Advanced with the pointer left where it is.
NotAdvanced == frames

\* current_frame.advance_instruction_pointer()
Advanced ==
    WithCurrent(frames, [current_frame(frames) EXCEPT !.instruction_pointer = @ + 1])

Fetched ==
    [function_index |-> current_frame(frames).function_index,
     pointer |-> current_frame(frames).instruction_pointer,
     opcode |-> FetchInstruction.val.opcode,
     operand |-> FetchInstruction.val.operand]

\* A panic unwinds out of main: the message goes to the error stream and
\* the process ends with the panic status.
PanicExit(msg) ==
    /\ pc' = "exited"
    /\ stderr' = Append(stderr, Diag("panic", msg))
    /\ exit_status' = "failure"

\* The state an iteration leaves: res is the result of the dispatch arm.
Commit(res, out, run) ==
    /\ frames' = res.frames
    /\ stdout' = out
    /\ is_running' = run
    /\ instruction' = Fetched
    /\ IF res.msg = "" THEN pc' = "run" /\ UNCHANGED <<stderr, exit_status>>
       ELSE PanicExit(res.msg)
    /\ UNCHANGED <<argc, file, bytecode>>

\* An arm that reads instruction.operand().
WithOperand(res) ==
    IF operand_of(FetchInstruction.val).ok THEN res
    ELSE VmRes(Advanced, operand_of(FetchInstruction.val).msg)

\* get_function or get_instruction panics: nothing is fetched.
FetchFault ==
    /\ Running
    /\ ~(FetchFunction.ok /\ FetchInstruction.ok)
    /\ PanicExit(IF ~FetchFunction.ok THEN FetchFunction.msg ELSE FetchInstruction.msg)
    /\ UNCHANGED <<argc, file, bytecode, frames, is_running, instruction, stdout>>

PushConst ==
    /\ Fetches("PushConst")
    /\ Commit(WithOperand(run_push_const(bytecode, Advanced, Fetched.operand)),
              stdout, is_running)

BinaryOp ==
    /\ \E opcode \in BinaryOps : Fetches(opcode)
    /\ Commit(binary_op(Advanced, Fetched.opcode), stdout, is_running)

UnaryOp ==
    /\ \E opcode \in {"Not", "Negate"} : Fetches(opcode)
    /\ Commit(unary_op(Advanced, Fetched.opcode), stdout, is_running)

Equal ==
    /\ Fetches("Equal")
    /\ Commit(run_equal(Advanced), stdout, is_running)

Jump ==
    /\ Fetches("Jump")
    /\ Commit(WithOperand(VmRes(handle_jump(Advanced, Fetched.operand), "")),
              stdout, is_running)

JumpIfTrue ==
    /\ Fetches("JumpIfTrue")
    /\ Commit(WithOperand(run_jump_if_true(Advanced, Fetched.operand)),
              stdout, is_running)

JumpIfFalse ==
    /\ Fetches("JumpIfFalse")
    /\ Commit(WithOperand(run_jump_if_false(Advanced, Fetched.operand)),
              stdout, is_running)

PrintValue ==
    /\ Fetches("Print")
    /\ Commit(run_print(Advanced),
              IF run_print(Advanced).msg = ""
              THEN Append(stdout, printed_line(Advanced)) ELSE stdout,
              is_running)

GetLocal ==
    /\ Fetches("GetLocal")
    /\ Commit(WithOperand(run_get_local(Advanced, Fetched.operand)),
              stdout, is_running)

SetLocal ==
    /\ Fetches("SetLocal")
    /\ Commit(WithOperand(run_set_local(Advanced, Fetched.operand)),
              stdout, is_running)

Call ==
    /\ Fetches("Call")
    /\ Commit(WithOperand(run_call(bytecode, Advanced, Fetched.operand)),
              stdout, is_running)

Return ==
    /\ Fetches("Return")
    /\ Commit(run_return(Advanced), stdout, is_running)

Halt ==
    /\ Fetches("Halt")
    /\ Commit(VmRes(Advanced, ""), stdout, FALSE)

\* The loop condition is false: run returns, and main after it.
RunExit ==
    /\ pc = "run"
    /\ is_call_stack_empty(frames) \/ ~is_running
    /\ pc' = "exited"
    /\ exit_status' = "success"
    /\ UNCHANGED <<argc, file, bytecode, frames, is_running, instruction,
                   stdout, stderr>>

Next ==
    \/ MainUsage
    \/ MainLoadErr
    \/ MainLoadOk
    \/ FetchFault
    \/ PushConst
    \/ BinaryOp
    \/ UnaryOp
    \/ Equal
    \/ Jump
    \/ JumpIfTrue
    \/ JumpIfFalse
    \/ PrintValue
    \/ GetLocal
    \/ SetLocal
    \/ Call
    \/ Return
    \/ Halt
    \/ RunExit

Spec == Init /\ [][Next]_vars

\* The files of the runs followed to their end: one instruction of every
\* kind on a stack of depth 1, 2 or 3, and the programs of families 8, 10
\* and 11.
LiveFiles ==
    { EncodeModule(<<a, KNum5>>,
                   <<Function(Pushes(d) \o <<i, Ins("Print"), Ins("Halt")>>, 0),
                     Identity>>) :
        a \in {KNum10, KTrue}, i \in AllInstructions, d \in 1..3 }
    \cup UnderflowFiles \cup UnreachedFiles \cup ReachedFiles
    \cup {RecursiveFile, SameSlotFile, BaseFile, ScenarioFile}

LiveInit ==
    /\ argc \in {1, 2}
    /\ file \in IF argc = 1 THEN {NoFile} ELSE LiveFiles \cup {NoFile}
    /\ pc = "main"
    /\ bytecode = NoBytecode
    /\ frames = <<>>
    /\ is_running = TRUE
    /\ instruction = NoInstruction
    /\ stdout = <<>>
    /\ stderr = <<>>
    /\ exit_status = "none"

\* main and the loop of run are one thread that nothing suspends: while a
\* step is possible, one is taken.
LiveSpec == LiveInit /\ [][Next]_vars /\ WF_vars(Next)

-----------------------------------------------------------------------------
(* Sanity of the representation *)

RECURSIVE AllExact(_)
AllExact(values) ==
    \/ values = <<>>
    \/ /\ LET v == Head(values)
          IN  v.tag = "Number" /\ v.cls = "fin"
              => IsPow2(v.den) /\ v.num < 1048576 /\ v.den <= 1048576
       /\ AllExact(Tail(values))

\* Every finite Number on an operand stack or in a constant pool is a
\* dyadic fraction within the range where double arithmetic is exact.
NumbersExact ==
    /\ AllExact(bytecode.constants)
    /\ \A i \in 1..Len(frames) : AllExact(frames[i].stack)

-----------------------------------------------------------------------------
(* Vocabulary of the properties.  In an action formula the unprimed state  *)
(* is the state at the fetch and the primed state is the state the         *)
(* iteration leaves.                                                       *)

Cur == current_frame(frames)
Top == Cur.stack[Len(Cur.stack)]
Below(n) == SubSeq(Cur.stack, 1, Len(Cur.stack) - n)

\* The iteration ends the run by a panic with this message.
Faults(msg) ==
    /\ pc' = "exited"
    /\ exit_status' = "failure"
    /\ stderr' = Append(stderr, Diag("panic", msg))

\* The iteration completes and leaves this frame as the current frame, the
\* frames below it untouched.
Leaves(frame) ==
    /\ pc' = "run"
    /\ frames' = WithCurrent(frames, frame)

LastDiag == stderr[Len(stderr)]

-----------------------------------------------------------------------------
\* C1: a jump-if-true or jump-if-false that pops a value that is not a
\* Boolean ends the run in a fatal fault at that instruction: the value is
\* never treated as a Boolean that does not match.
C1_NonBooleanJumpFaults ==
    [][ \A op \in {"JumpIfTrue", "JumpIfFalse"} :
            (Fetches(op) /\ Cur.stack # <<>> /\ Top.tag # "Boolean")
            => (pc' = "exited" /\ exit_status' = "failure") ]_vars

-----------------------------------------------------------------------------
\* C2: a conditional jump at index i with operand t that pops a Boolean b
\* sets the pointer to t (absolute) exactly when b is false (jump-if-false)
\* or true (jump-if-true), otherwise to i + 1; the stack is one value
\* shorter, and the locals and the frames below are unchanged.
C2_Taken(op, b) == (op = "JumpIfFalse" /\ ~b) \/ (op = "JumpIfTrue" /\ b)

C2_ConditionalJump ==
    [][ \A op \in {"JumpIfTrue", "JumpIfFalse"} :
            (Fetches(op) /\ Cur.stack # <<>> /\ Top.tag = "Boolean")
            => Leaves([Cur EXCEPT
                         !.instruction_pointer =
                             IF C2_Taken(op, Top.b) THEN Fetched.operand ELSE @ + 1,
                         !.stack = Below(1)]) ]_vars

\* A jump-if-false at index 2 has jumped back to index 0.
C2_Witness ==
    /\ pc = "run"
    /\ instruction.opcode = "JumpIfFalse"
    /\ instruction.pointer = 2
    /\ instruction.operand = 0
    /\ Cur.instruction_pointer = 0

-----------------------------------------------------------------------------
\* C3: a binary operation on a stack ending with a (pushed first) and b
\* (on top) pushes a OP b, never b OP a, onto the stack below a and b;
\* push 10; push 5; subtract; print prints 5.
C3_Apply(op, a, b) ==
    CASE op = "Add" -> add(a, b)
      [] op = "Subtract" -> subtract(a, b)
      [] op = "Multiply" -> multiply(a, b)
      [] op = "Divide" -> divide(a, b)
      [] op = "Modulo" -> modulo(a, b)
      [] op = "And" -> logical_and(a, b)
      [] op = "Or" -> logical_or(a, b)

C3_Step ==
    \A op \in BinaryOps :
        (Fetches(op) /\ Len(Cur.stack) >= 2)
        => LET a == Cur.stack[Len(Cur.stack) - 1]
               b == Cur.stack[Len(Cur.stack)]
           IN  IF C3_Apply(op, a, b).ok
               THEN Leaves([Cur EXCEPT
                              !.instruction_pointer = @ + 1,
                              !.stack = Append(Below(2), C3_Apply(op, a, b).val)])
               ELSE Faults(C3_Apply(op, a, b).msg)

C3_Scenario ==
    (file = ScenarioFile /\ argc = 2 /\ pc = "exited") => stdout = << <<53>> >>

C3_BinaryOperandOrder == [][C3_Step]_vars /\ []C3_Scenario

C3_Witness ==
    /\ file = ScenarioFile
    /\ pc = "exited"
    /\ instruction.opcode = "Halt"
    /\ stdout = << <<53>> >>

-----------------------------------------------------------------------------
\* C4: equality of two values of different variants pushes Boolean false
\* and never faults; of two values of the same variant it pushes Boolean
\* true exactly when the payloads are equal (two Numbers as doubles: a NaN
\* equals nothing, the two zeros are equal).  It replaces the top two
\* values by one Boolean.
C4_SamePayload(a, b) ==
    CASE a.tag = "Boolean" -> a.b = b.b
      [] a.tag = "Str" -> a.s = b.s
      [] a.tag = "Number" ->
            /\ a.cls # "nan"
            /\ b.cls # "nan"
            /\ \/ IsZero(a) /\ IsZero(b)
               \/ <<a.cls, a.neg, a.num, a.den>> = <<b.cls, b.neg, b.num, b.den>>

C4_Equality ==
    [][ (Fetches("Equal") /\ Len(Cur.stack) >= 2)
        => LET a == Cur.stack[Len(Cur.stack) - 1]
               b == Cur.stack[Len(Cur.stack)]
           IN  Leaves([Cur EXCEPT
                         !.instruction_pointer = @ + 1,
                         !.stack = Append(Below(2),
                                          Boolean(IF a.tag # b.tag THEN FALSE
                                                  ELSE C4_SamePayload(a, b)))]) ]_vars

\* true and "a" have been compared, and false was printed.
C4_Witness ==
    /\ file = EncodeModule(<<KTrue, KStrA>>,
                           <<Function(<<Push(0), Push(1), Ins("Equal"),
                                        Ins("Print"), Ins("Halt")>>, 0),
                             Identity>>)
    /\ pc = "exited"
    /\ exit_status = "success"
    /\ stdout = <<TextFalse>>

-----------------------------------------------------------------------------
\* C5: a call of a function declaring n arguments, on a caller stack ending
\* with v0 .. v(n-1) in push order, removes exactly those n values and
\* pushes a frame with pointer 0, an empty stack and locals slot k = vk for
\* k in 0..n-1.
C5_Call ==
    [][ (/\ Fetches("Call")
         /\ InRange(bytecode.functions, Fetched.operand)
         /\ Len(Cur.stack) >= bytecode.functions[Fetched.operand + 1].num_args)
        => LET n == bytecode.functions[Fetched.operand + 1].num_args
               caller == [Cur EXCEPT !.instruction_pointer = @ + 1,
                                     !.stack = Below(n)]
               callee == [instruction_pointer |-> 0,
                          function_index |-> Fetched.operand,
                          stack |-> <<>>,
                          locals |-> [k \in 0..(n - 1) |->
                                        Cur.stack[Len(Cur.stack) - n + k + 1]]]
           IN  /\ pc' = "run"
               /\ frames' = Append(WithCurrent(frames, caller), callee) ]_vars

\* After push 10; push 5; call of a 2-argument function: slot 0 = 10,
\* slot 1 = 5, and the caller's stack is empty.
C5_Witness ==
    /\ pc = "run"
    /\ instruction.opcode = "Call"
    /\ Len(frames) = 2
    /\ Cur.instruction_pointer = 0
    /\ Cur.stack = <<>>
    /\ DOMAIN Cur.locals = {0, 1}
    /\ Cur.locals[0] = Fin(FALSE, 10, 1)
    /\ Cur.locals[1] = Fin(FALSE, 5, 1)
    /\ frames[1].stack = <<>>

-----------------------------------------------------------------------------
\* C6: a return in a frame with a caller below it destroys the frame and
\* pushes exactly one value onto the caller's stack: the top of the
\* returning frame's stack, or Boolean false when that stack is empty.
C6_Return ==
    [][ (Fetches("Return") /\ Len(frames) >= 2)
        => LET caller == frames[Len(frames) - 1]
               value == IF Cur.stack # <<>> THEN Top ELSE Boolean(FALSE)
           IN  /\ pc' = "run"
               /\ frames' = [i \in 1..(Len(frames) - 1) |->
                               IF i = Len(frames) - 1
                               THEN [caller EXCEPT !.stack = Append(@, value)]
                               ELSE frames[i]] ]_vars

\* Function 1 returned at its first instruction, with an empty stack, and
\* the caller received Boolean false.
C6_Witness ==
    /\ pc = "run"
    /\ instruction.opcode = "Return"
    /\ instruction.function_index = 1
    /\ instruction.pointer = 0
    /\ Len(frames) = 1
    /\ Cur.stack # <<>>
    /\ Top = Boolean(FALSE)

-----------------------------------------------------------------------------
\* C7: once a halt has executed, at any call depth, the engine is halted
\* and stays halted: nothing more is fetched or printed, and the call stack
\* stays as the halt left it.
C7_HaltStep ==
    Fetches("Halt")
    => /\ ~is_running'
       /\ pc' = "run"
       /\ frames' = WithCurrent(frames, [Cur EXCEPT !.instruction_pointer = @ + 1])
       /\ stdout' = stdout

C7_Halted ==
    (pc # "main" /\ ~is_running)
    => /\ ~is_running'
       /\ pc' = "exited"
       /\ exit_status' = "success"
       /\ UNCHANGED <<frames, instruction, stdout, stderr>>

C7_HaltStops == [][C7_HaltStep /\ C7_Halted]_vars

\* The process has ended by a halt executed three frames deep.
C7_Witness ==
    /\ pc = "exited"
    /\ ~is_running
    /\ instruction.opcode = "Halt"
    /\ Len(frames) = 3

-----------------------------------------------------------------------------
\* C8: a get-local on a slot bound neither by the argument binding of the
\* current frame nor by an earlier set-local executed in it faults and
\* pushes nothing; slots written in another frame do not count.
\*
\* The slots bound in a frame are the domain of its locals: empty in the
\* entry frame, 0..n-1 in a frame made by a call, grown by exactly the slot
\* of each set-local executed in it, and touched by nothing else.
C8_SlotsOfStep(i) ==
    IF i = Len(frames) /\ Fetches("SetLocal") THEN {Fetched.operand} ELSE {}

C8_Binding ==
    /\ (pc = "main" /\ pc' = "run")
       => (Len(frames') = 1 /\ DOMAIN frames'[1].locals = {})
    /\ (pc = "run" /\ pc' = "run")
       => /\ \A i \in 1..Len(frames') :
                IF i <= Len(frames)
                THEN DOMAIN frames'[i].locals
                     = (DOMAIN frames[i].locals) \cup C8_SlotsOfStep(i)
                ELSE /\ Fetches("Call")
                     /\ i = Len(frames) + 1
                     /\ DOMAIN frames'[i].locals
                        = 0..(bytecode.functions[Fetched.operand + 1].num_args - 1)

C8_UnboundFaults ==
    (Fetches("GetLocal") /\ Fetched.operand \notin DOMAIN Cur.locals)
    => /\ Faults("Local variable not found.")
       /\ frames' = WithCurrent(frames, [Cur EXCEPT !.instruction_pointer = @ + 1])
       /\ stdout' = stdout

C8_GetLocalUnbound == [][C8_Binding /\ C8_UnboundFaults]_vars

\* The second activation of function 1 read slot 1, which only the first
\* activation had written, and faulted.
C8_Witness ==
    /\ file = ReactivationFile
    /\ pc = "exited"
    /\ exit_status = "failure"
    /\ LastDiag = Diag("panic", "Local variable not found.")
    /\ instruction = [function_index |-> 1, pointer |-> 2,
                      opcode |-> "GetLocal", operand |-> 1]
    /\ Len(frames) = 2
    /\ Cur.stack = <<>>

-----------------------------------------------------------------------------
\* C9: when the pointer of the current frame is not an index of its
\* function's instructions at the fetch, the run faults: it neither halts
\* normally nor returns to the caller.
C9_FetchOutOfRange ==
    [][ (/\ Running
         /\ FetchFunction.ok
         /\ ~InRange(FetchFunction.val.instructions, Cur.instruction_pointer))
        => /\ Faults("Invalid instruction index")
           /\ UNCHANGED <<frames, is_running, stdout>> ]_vars

\* Function 1 ran past its last instruction while its caller was waiting.
C9_Witness ==
    /\ pc = "exited"
    /\ exit_status = "failure"
    /\ LastDiag = Diag("panic", "Invalid instruction index")
    /\ Len(frames) = 2
    /\ is_running
    /\ Cur.instruction_pointer
       = Len(bytecode.functions[Cur.function_index + 1].instructions)

-----------------------------------------------------------------------------
\* C10: whenever loading fails or a run-time fault occurs, a diagnostic is
\* written to the error stream and the process exits abnormally; a process
\* that exits normally has loaded the module and run it to a halt or to an
\* empty call stack without fault.
C10_LoadFailed == argc >= 2 /\ ~from_file(file).ok

C10_RuntimeFault == stderr # <<>> /\ LastDiag.kind = "panic"

\* For a process started with a module path.
C10_FailureExitsAbnormally ==
    (pc = "exited" /\ argc >= 2)
    => /\ (C10_LoadFailed \/ C10_RuntimeFault)
          => (stderr # <<>> /\ exit_status = "failure")
       /\ exit_status = "success"
          => /\ from_file(file).ok
             /\ stderr = <<>>
             /\ ~is_running \/ frames = <<>>

-----------------------------------------------------------------------------
\* C11: loading a stream that is exactly the encoding of a module (magic,
\* version 1, constant count and records, function count and records)
\* succeeds, and the Program has the constants written, in order and with
\* their values, and the functions written, in order, each with its
\* argument count and its instructions (opcode and operand).
C11_ValueOf(record) ==
    CASE record = KNum10 -> Fin(FALSE, 10, 1)
      [] record = KNum5 -> Fin(FALSE, 5, 1)
      [] record = KNum0 -> Fin(FALSE, 0, 1)
      [] record = KNaN -> NaN
      [] record = KTrue -> Boolean(TRUE)
      [] record = KFalse -> Boolean(FALSE)
      [] record = KStrA -> Str(<<97>>)
      [] record = KStrE -> Str(<<195, 169>>)

C11_Program(m) ==
    Bytecode(m.functions, [i \in 1..Len(m.consts) |-> C11_ValueOf(m.consts[i])])

C11_RoundTrip ==
    [][ (pc = "main" /\ argc >= 2)
        => \A m \in WrittenModules :
              file = m.bytes
              => /\ pc' = "run"
                 /\ bytecode' = C11_Program(m)
                 /\ stderr' = <<>> ]_vars

\* The module of all eight constants and every opcode has been loaded.
C11_Witness ==
    /\ file = EncodeModule(<<KNum10, KNum5, KNum0, KNaN, KTrue, KFalse, KStrA,
                             KStrE>>,
                           <<Function(EveryOpcodeBody, 0)>>)
    /\ pc = "run"
    /\ Len(bytecode.constants) = 8
    /\ bytecode.constants[8] = Str(<<195, 169>>)
    /\ Len(bytecode.functions) = 1
    /\ bytecode.functions[1].instructions[19] = Instruction("Call", 513)

-----------------------------------------------------------------------------
\* C12: in every loaded Program an instruction has an operand exactly when
\* its opcode is push-constant, jump, jump-if-true, jump-if-false,
\* get-local, set-local or call; the engine never reads the operand of an
\* instruction that has none; and the loader consumed exactly 3 bytes of
\* the stream for each instruction of those opcodes and 1 byte for each
\* other.
C12_WithOperand ==
    {"PushConst", "Jump", "JumpIfTrue", "JumpIfFalse", "GetLocal", "SetLocal",
     "Call"}

C12_Shape ==
    \A f \in 1..Len(bytecode.functions) :
        \A k \in 1..Len(bytecode.functions[f].instructions) :
            LET instr == bytecode.functions[f].instructions[k]
            IN  IF instr.opcode \in C12_WithOperand
                THEN instr.operand \in 0..65535
                ELSE instr.operand = NoOperand

C12_NeverReadsAbsent ==
    \A i \in 1..Len(stderr) :
        stderr[i] # Diag("panic", "Instruction has no operand")

\* The bytes of the records of the loaded Program, from its values.
C12_ConstantSize(v) ==
    CASE v.tag = "Number" -> 9
      [] v.tag = "Boolean" -> 2
      [] v.tag = "Str" -> 3 + Len(v.s)

C12_InstructionSize(instr) == IF instr.opcode \in C12_WithOperand THEN 3 ELSE 1

\* The stream position after the first n constants.
RECURSIVE C12_AfterConstants(_)
C12_AfterConstants(n) ==
    IF n = 0 THEN 9
    ELSE C12_AfterConstants(n - 1) + C12_ConstantSize(bytecode.constants[n])

\* The stream position after the first k instructions of function f, that
\* follows the function count (f = 1) or function f - 1.
RECURSIVE C12_AfterInstructions(_, _)
C12_AfterInstructions(f, k) ==
    IF k > 0
    THEN C12_AfterInstructions(f, k - 1)
         + C12_InstructionSize(bytecode.functions[f].instructions[k])
    ELSE 8 + (IF f = 1 THEN C12_AfterConstants(Len(bytecode.constants)) + 4
              ELSE C12_AfterInstructions(
                       f - 1, Len(bytecode.functions[f - 1].instructions)))

\* At the positions the instructions were read from, the reader yields the
\* instruction and has moved by its size; the load ended after the last.
C12_Consumed ==
    /\ \A f \in 1..Len(bytecode.functions) :
          \A k \in 1..Len(bytecode.functions[f].instructions) :
              read_instruction(file, C12_AfterInstructions(f, k - 1))
              = ReadOk(bytecode.functions[f].instructions[k],
                       C12_AfterInstructions(f, k))
    /\ from_file(file).pos
       = IF bytecode.functions = <<>>
         THEN C12_AfterConstants(Len(bytecode.constants)) + 4
         ELSE C12_AfterInstructions(
                  Len(bytecode.functions),
                  Len(bytecode.functions[Len(bytecode.functions)].instructions))

C12_OperandArity ==
    /\ C12_Shape
    /\ C12_NeverReadsAbsent
    /\ (pc = "run" /\ instruction = NoInstruction) => C12_Consumed

\* A call has read its operand and entered function 1; the print after it
\* was loaded without an operand.
C12_Witness ==
    /\ pc = "run"
    /\ instruction.opcode = "Call"
    /\ instruction.operand = 1
    /\ Len(frames) = 2
    /\ Cur.function_index = 1
    /\ bytecode.functions[1].instructions[3] = Instruction("Call", 1)
    /\ bytecode.functions[1].instructions[4] = Instruction("Print", NoOperand)

-----------------------------------------------------------------------------
\* C13: when a step of loading fails, however many constants and functions
\* were decoded before it, no Program exists: the machine is never
\* constructed, no instruction is fetched or executed, nothing is printed,
\* and the only thing written is the diagnostic of the failure.
C13_NoProgramOnFailure ==
    (argc >= 2 /\ pc # "main" /\ ~from_file(file).ok)
    => /\ pc = "exited"
       /\ bytecode = NoBytecode
       /\ frames = <<>>
       /\ instruction = NoInstruction
       /\ stdout = <<>>
       /\ stderr = <<Diag("load", from_file(file).err.msg)>>

\* The load failed on the opcode of the last instruction, after three
\* constants and two instructions had been decoded.
C13_Witness ==
    /\ file = Patch(BaseFile, Len(BaseFile), 254)
    /\ pc = "exited"
    /\ stderr = <<Diag("load", "Unknown opcode")>>
    /\ stdout = <<>>
    /\ frames = <<>>

-----------------------------------------------------------------------------
\* C14: a module whose instructions hold a constant index, a function index
\* or a jump target out of range is loaded; the fault arises only when such
\* an instruction is executed: a push-constant and a call fault at the
\* instruction itself, a jump completes and the fetch after it faults; a
\* program that never reaches the instruction runs to its halt or final
\* return without fault.
C14_JumpTaken(op) ==
    \/ op = "Jump"
    \/ /\ op \in {"JumpIfTrue", "JumpIfFalse"}
       /\ Cur.stack # <<>>
       /\ Top = Boolean(op = "JumpIfTrue")

C14_FaultsAtInstruction(msg) ==
    /\ Faults(msg)
    /\ instruction' = Fetched
    /\ frames' = WithCurrent(frames, [Cur EXCEPT !.instruction_pointer = @ + 1])
    /\ stdout' = stdout

C14_Step ==
    /\ (Fetches("PushConst") /\ ~InRange(bytecode.constants, Fetched.operand))
       => C14_FaultsAtInstruction("Constant index out of range.")
    /\ (Fetches("Call") /\ ~InRange(bytecode.functions, Fetched.operand))
       => C14_FaultsAtInstruction("Invalid function index")
    /\ \A op \in {"Jump", "JumpIfTrue", "JumpIfFalse"} :
          (/\ Fetches(op)
           /\ C14_JumpTaken(op)
           /\ ~InRange(FetchFunction.val.instructions, Fetched.operand))
          => /\ pc' = "run"
             /\ exit_status' = "none"
             /\ stderr' = stderr
             /\ instruction' = Fetched
             /\ is_running'
             /\ Len(frames') = Len(frames)
             /\ current_frame(frames').instruction_pointer = Fetched.operand
    /\ (/\ pc = "run"
        /\ instruction.opcode \in {"Jump", "JumpIfTrue", "JumpIfFalse"}
        /\ Cur.instruction_pointer = instruction.operand
        /\ ~InRange(FetchFunction.val.instructions, instruction.operand))
       => /\ Faults("Invalid instruction index")
          /\ UNCHANGED <<frames, instruction, stdout>>
    /\ Faults("Constant index out of range.")
       => (Fetches("PushConst") /\ ~InRange(bytecode.constants, Fetched.operand))
    /\ Faults("Invalid function index")
       => \/ Fetches("Call") /\ ~InRange(bytecode.functions, Fetched.operand)
          \/ bytecode.functions = <<>>
    /\ Faults("Invalid instruction index")
       => ~InRange(FetchFunction.val.instructions, Cur.instruction_pointer)

C14_Unreached ==
    (file \in UnreachedFiles /\ argc >= 2 /\ pc = "exited")
    => /\ exit_status = "success"
       /\ stderr = <<>>
       /\ ~is_running \/ frames = <<>>

C14_LazyValidation == [][C14_Step]_vars /\ []C14_Unreached

\* The run jumped over a push-constant of index 9, in a module of one
\* constant, and halted.
C14_Witness ==
    /\ file = EncodeModule(<<KTrue>>,
                           <<Function(<<Push(0), Instruction("JumpIfTrue", 3),
                                        Push(9), Ins("Halt")>>, 0)>>)
    /\ pc = "exited"
    /\ exit_status = "success"
    /\ bytecode.functions[1].instructions[3] = Instruction("PushConst", 9)
    /\ Len(bytecode.constants) = 1
    /\ instruction = [function_index |-> 0, pointer |-> 3, opcode |-> "Halt",
                      operand |-> NoOperand]

-----------------------------------------------------------------------------
\* C15: the loader validates magic, version, constants, functions in that
\* order and stops at the first step that fails: the failure reported is
\* that of the earliest invalid element of the stream, and the outcome does
\* not depend on any byte after that element (wrong magic and wrong version:
\* the magic is reported; unknown constant tag: reported before any function
\* record is read).
C15_Case(bytes, pos, msg) == [bytes |-> bytes, pos |-> pos, msg |-> msg]

\* Streams with the failure expected of each and the number of bytes
\* consumed when it is met.
C15_Cases ==
    { C15_Case(Patch(BaseFile, i, 0), 4, "Invalid magic number") : i \in 1..4 }
    \cup
    { C15_Case(Patch(BaseFile, 5, v), 5, "Unsupported version") : v \in {0, 2} }
    \cup
    { C15_Case(Patch(Patch(BaseFile, 1, 0), 5, 2), 4, "Invalid magic number"),
      C15_Case(Patch(Patch(BaseFile, 5, 2), 10, 9), 5, "Unsupported version"),
      C15_Case(Patch(Patch(BaseFile, 10, 9), Len(BaseFile), 254), 10,
               "Unknown constant type"),
      C15_Case(Patch(Patch(BaseFile, 1, 0), Len(BaseFile), 254), 4,
               "Invalid magic number"),
      C15_Case(SubSeq(Patch(BaseFile, 10, 9), 1, 12), 10, "Unknown constant type"),
      C15_Case(SubSeq(Patch(BaseFile, 1, 0), 1, 4), 4, "Invalid magic number"),
      C15_Case(Patch(Patch(BaseFile, Len(BaseFile) - 1, 2), Len(BaseFile), 254),
               Len(BaseFile) - 1, "Unknown opcode"),
      C15_Case(Patch(Patch(BaseFile, 25, 40), Len(BaseFile), 254), 25,
               "invalid utf-8 sequence"),
      C15_Case(Patch(BaseFile, Len(BaseFile), 254), Len(BaseFile),
               "Unknown opcode") }
    \cup
    { C15_Case(SubSeq(BaseFile, 1, k), k, "failed to fill whole buffer") :
        k \in 0..(Len(BaseFile) - 1) }

C15_Junk == { <<>>, <<0>>, <<255, 1, 3>>, <<90, 82, 67, 78, 1>> }

C15_ValidationOrder ==
    (pc = "exited" /\ argc >= 2 /\ file # NoFile)
    => /\ \A c \in C15_Cases :
             file = c.bytes
             => /\ stderr = <<Diag("load", c.msg)>>
                /\ from_file(file).pos = c.pos
       /\ (stderr # <<>> /\ LastDiag.kind = "load")
          => LET r == from_file(file)
             IN  /\ ~r.ok
                 /\ LastDiag.msg = r.err.msg
                 /\ r.pos > 4 => SubSeq(file, 1, 4) = Magic
                 /\ r.pos > 5 => file[5] = 1
                 /\ IF r.err = Eof
                    THEN \A k \in 0..Len(file) :
                            from_file(SubSeq(file, 1, k)).err = Eof
                    ELSE \A junk \in C15_Junk :
                            from_file(SubSeq(file, 1, r.pos) \o junk) = r

\* A stream with a wrong magic and a wrong version failed on the magic.
C15_Witness ==
    /\ file = Patch(Patch(BaseFile, 1, 0), 5, 2)
    /\ pc = "exited"
    /\ stderr = <<Diag("load", "Invalid magic number")>>
    /\ bytecode = NoBytecode

-----------------------------------------------------------------------------
\* C16: an instruction that needs more values than the operand stack of
\* the current frame holds (a binary operation or equality on fewer than 2;
\* negate, not, a conditional jump, print or set-local on none; a call of
\* an n-argument function on fewer than n) ends the run by a fault in that
\* iteration: nothing executes after it, the frames below the current one
\* keep their values, the values the instruction popped stay popped, and
\* what was printed stays printed.
C16_Needs ==
    CASE Fetched.opcode \in BinaryOps \cup {"Equal"} -> 2
      [] Fetched.opcode \in {"Negate", "Not", "JumpIfTrue", "JumpIfFalse",
                              "Print", "SetLocal"} -> 1
      [] Fetched.opcode = "Call" /\ InRange(bytecode.functions, Fetched.operand) ->
            bytecode.functions[Fetched.operand + 1].num_args
      [] OTHER -> 0

C16_Step ==
    (/\ Running
     /\ FetchFunction.ok
     /\ FetchInstruction.ok
     /\ Len(Cur.stack) < C16_Needs)
    => /\ Faults("Stack underflow.")
       /\ instruction' = Fetched
       /\ frames' = WithCurrent(frames, [Cur EXCEPT !.instruction_pointer = @ + 1,
                                                    !.stack = <<>>])
       /\ stdout' = stdout

C16_Stopped == pc = "exited" => UNCHANGED vars

C16_UnderflowFaults == [][C16_Step /\ C16_Stopped]_vars

\* An add in function 1 found one value on its stack and faulted: the value
\* is gone, the value on the caller's stack and the line printed before the
\* call are still there.
C16_Witness ==
    /\ pc = "exited"
    /\ exit_status = "failure"
    /\ LastDiag = Diag("panic", "Stack underflow.")
    /\ instruction = [function_index |-> 1, pointer |-> 1, opcode |-> "Add",
                      operand |-> NoOperand]
    /\ Len(frames) = 2
    /\ frames[2].stack = <<>>
    /\ frames[1].stack = <<Fin(FALSE, 10, 1)>>
    /\ stdout = << <<49, 48>> >>

-----------------------------------------------------------------------------
\* C17: the run starts running with exactly one frame (function 0, pointer
\* 0, empty stack, no locals) and ends without fault in exactly two ways: a
\* halt was executed, or a return was executed in the last frame, which
\* empties the call stack; the value of that return is pushed nowhere and
\* the return is no fault.  Whenever the loop fetches, the call stack is not
\* empty.
C17_Start ==
    (pc = "main" /\ pc' = "run")
    => /\ is_running'
       /\ Len(frames') = 1
       /\ frames'[1].function_index = 0
       /\ frames'[1].instruction_pointer = 0
       /\ frames'[1].stack = <<>>
       /\ DOMAIN frames'[1].locals = {}

C17_End ==
    (pc = "run" /\ pc' = "exited" /\ exit_status' = "success")
    => /\ UNCHANGED <<frames, is_running, instruction, stdout, stderr>>
       /\ stderr = <<>>
       /\ \/ instruction.opcode = "Halt" /\ ~is_running /\ frames # <<>>
          \/ instruction.opcode = "Return" /\ is_running /\ frames = <<>>

C17_FinalReturn ==
    (Fetches("Return") /\ Len(frames) = 1)
    => /\ frames' = <<>>
       /\ pc' = "run"
       /\ is_running'
       /\ exit_status' = "none"
       /\ UNCHANGED <<stdout, stderr>>

C17_EmptyStackExits ==
    (pc = "run" /\ frames = <<>>)
    => (pc' = "exited" /\ exit_status' = "success" /\ instruction' = instruction)

C17_FetchHasFrame ==
    (pc = "run" /\ (instruction' # instruction \/ exit_status' = "failure"))
    => (frames # <<>> /\ is_running)

C17_StartAndTermination ==
    [][ /\ C17_Start
        /\ C17_End
        /\ C17_FinalReturn
        /\ C17_EmptyStackExits
        /\ C17_FetchHasFrame ]_vars

\* The entry function returned with two values on its stack: the call
\* stack is empty and the process ended normally.
C17_Witness ==
    /\ pc = "exited"
    /\ exit_status = "success"
    /\ stderr = <<>>
    /\ is_running
    /\ frames = <<>>
    /\ instruction = [function_index |-> 0, pointer |-> 8, opcode |-> "Return",
                      operand |-> NoOperand]
    /\ Len(stdout) = 2

-----------------------------------------------------------------------------
\* C18: an instruction step reads and writes the top frame only: pointer,
\* stack and locals of every frame below the top are unchanged by every
\* step, except that a return appends exactly one value to the stack of the
\* frame directly below the returning frame.  The depth of the call stack
\* grows by exactly 1 on a call, shrinks by exactly 1 on a return, and is
\* unchanged by every other instruction.
\*
\* What the arm of the fetched instruction, other than a return, does on a
\* call stack that holds the top frame alone.
C18_Alone ==
    LET fs == << [Cur EXCEPT !.instruction_pointer = @ + 1] >>
        op == Fetched.opcode
        x  == Fetched.operand
    IN  CASE op = "PushConst" -> run_push_const(bytecode, fs, x)
          [] op \in BinaryOps -> binary_op(fs, op)
          [] op \in {"Not", "Negate"} -> unary_op(fs, op)
          [] op = "Equal" -> run_equal(fs)
          [] op = "Jump" -> VmRes(handle_jump(fs, x), "")
          [] op = "JumpIfTrue" -> run_jump_if_true(fs, x)
          [] op = "JumpIfFalse" -> run_jump_if_false(fs, x)
          [] op = "Print" -> run_print(fs)
          [] op = "GetLocal" -> run_get_local(fs, x)
          [] op = "SetLocal" -> run_set_local(fs, x)
          [] op = "Call" -> run_call(bytecode, fs, x)
          [] op = "Halt" -> VmRes(fs, "")

C18_DepthChange ==
    IF Fetched.opcode = "Call" /\ pc' = "run" THEN 1
    ELSE IF Fetched.opcode = "Return" THEN 0 - 1
    ELSE 0

C18_Step ==
    (Running /\ FetchFunction.ok /\ FetchInstruction.ok)
    => /\ instruction' = Fetched
       /\ Len(frames') = Len(frames) + C18_DepthChange
       /\ \A i \in 1..(Len(frames) - 1) :
             frames'[i]
             = IF Fetched.opcode = "Return" /\ i = Len(frames) - 1
               THEN [frames[i] EXCEPT
                       !.stack = Append(@, IF Cur.stack # <<>> THEN Top
                                           ELSE Boolean(FALSE))]
               ELSE frames[i]
       /\ Fetched.opcode # "Return"
          => /\ frames' = SubSeq(frames, 1, Len(frames) - 1) \o C18_Alone.frames
             /\ IF C18_Alone.msg = "" THEN pc' = "run" /\ stderr' = stderr
                ELSE Faults(C18_Alone.msg)
       /\ stdout' = IF Fetched.opcode = "Print" /\ Cur.stack # <<>>
                    THEN Append(stdout, fmt(Top)) ELSE stdout

C18_NoFetch ==
    (pc = "run" /\ ~(Running /\ FetchFunction.ok /\ FetchInstruction.ok))
    => UNCHANGED <<frames, instruction>>

C18_TopFrameOnly == [][C18_Step /\ C18_NoFetch]_vars

\* Function 2, three frames deep, returned: its caller received the value,
\* the entry frame below the caller is as it was.
C18_Witness ==
    /\ pc = "run"
    /\ instruction.opcode = "Return"
    /\ instruction.function_index = 2
    /\ Len(frames) = 2
    /\ frames[2].function_index = 1
    /\ frames[2].stack = <<Boolean(FALSE)>>
    /\ frames[1].stack = <<>>
    /\ frames[1].instruction_pointer = 2

-----------------------------------------------------------------------------
\* C19: for a call of an n-argument function at index i of a caller whose
\* stack is S followed by the n arguments, if the activation ends with a
\* return, the caller is then the current frame again with pointer i + 1,
\* the locals it had just before the call (a set-local of the callee, on
\* the same slot numbers too, does not change them) and the stack S
\* followed by exactly the one value returned; also for nested and
\* recursive calls.
\*
\* The call leaves the caller, below the new frame, with pointer i + 1,
\* stack S and its locals.
C19_CallStep ==
    (Fetches("Call") /\ pc' = "run")
    => LET n == bytecode.functions[Fetched.operand + 1].num_args
       IN  /\ Len(frames') = Len(frames) + 1
           /\ frames'[Len(frames)]
              = [Cur EXCEPT !.instruction_pointer = Fetched.pointer + 1,
                            !.stack = Below(n)]

\* While the activation lasts, whatever it executes, the caller stays as
\* the call left it.
C19_Waiting ==
    \A k \in 1..(Len(frames) - 1) : Len(frames') > k => frames'[k] = frames[k]

\* The return makes the caller current, with one value more on its stack and
\* nothing else changed.
C19_ReturnStep ==
    (Fetches("Return") /\ Len(frames) >= 2)
    => LET caller == frames[Len(frames) - 1]
       IN  /\ pc' = "run"
           /\ Len(frames') = Len(frames) - 1
           /\ current_frame(frames').instruction_pointer = caller.instruction_pointer
           /\ current_frame(frames').locals = caller.locals
           /\ current_frame(frames').stack
              = Append(caller.stack,
                       IF Cur.stack # <<>> THEN Top ELSE Boolean(FALSE))

\* Every frame below the top is at the instruction after the call that
\* made the frame above it; right after a return the current frame is at
\* the instruction after the call of the function that returned.
C19_CallOf(frame) ==
    LET function == bytecode.functions[frame.function_index + 1]
    IN  IF InRange(function.instructions, frame.instruction_pointer - 1)
        THEN function.instructions[frame.instruction_pointer]
        ELSE NoInstruction

C19_Resumed ==
    /\ \A k \in 1..(Len(frames) - 1) :
          /\ C19_CallOf(frames[k]).opcode = "Call"
          /\ C19_CallOf(frames[k]).operand = frames[k + 1].function_index
    /\ (pc = "run" /\ instruction.opcode = "Return" /\ frames # <<>>)
       => /\ C19_CallOf(Cur).opcode = "Call"
          /\ C19_CallOf(Cur).operand = instruction.function_index
          /\ Cur.stack # <<>>

\* The two programs: what the caller prints from its slot after the call
\* is what it bound before the call.
C19_Scenarios ==
    (pc = "exited" /\ argc >= 2)
    => /\ file = SameSlotFile => stdout = << <<49, 48>>, <<53>> >>
       /\ file = RecursiveFile => stdout = <<TextTrue, TextFalse>>

C19_CallReturn ==
    /\ [][C19_CallStep /\ C19_Waiting /\ C19_ReturnStep]_vars
    /\ []C19_Resumed
    /\ []C19_Scenarios

\* The inner activation of the recursive function, which wrote slots 0 and
\* 1, has returned false to the outer activation, which is at the
\* instruction after its call with slots 0 and 1 still true.
C19_Witness ==
    /\ file = RecursiveFile
    /\ pc = "run"
    /\ instruction = [function_index |-> 1, pointer |-> 14, opcode |-> "Return",
                      operand |-> NoOperand]
    /\ Len(frames) = 2
    /\ Cur.function_index = 1
    /\ Cur.instruction_pointer = 6
    /\ Cur.stack = <<Boolean(FALSE)>>
    /\ DOMAIN Cur.locals = {0, 1}
    /\ Cur.locals[0] = Boolean(TRUE)
    /\ Cur.locals[1] = Boolean(TRUE)

-----------------------------------------------------------------------------
\* C20: a program whose functions hold no jump, jump-if-true, jump-if-false
\* or call terminates: from the entry frame the run reaches a halt, an
\* empty call stack or a fault after executing at most as many
\* instructions as function 0 holds, and it executes the instruction
\* indices of function 0 in increasing order, each at most once.
C20_JumpFree ==
    \A f \in 1..Len(bytecode.functions) :
        \A k \in 1..Len(bytecode.functions[f].instructions) :
            bytecode.functions[f].instructions[k].opcode
            \notin {"Jump", "JumpIfTrue", "JumpIfFalse", "Call"}

C20_Started == pc = "run" /\ C20_JumpFree

C20_Ended ==
    /\ pc = "exited"
    /\ \/ ~is_running
       \/ frames = <<>>
       \/ exit_status = "failure"

\* The k-th instruction executed is instruction k - 1 of function 0, in the
\* entry frame.
C20_Step ==
    /\ (C20_Started /\ Running /\ FetchFunction.ok /\ FetchInstruction.ok)
       => /\ Len(frames) = 1
          /\ instruction' = Fetched
          /\ Fetched.function_index = 0
          /\ Fetched.pointer
             = IF instruction.opcode = "none" THEN 0 ELSE instruction.pointer + 1
          /\ Fetched.pointer < Len(bytecode.functions[1].instructions)
    /\ (C20_Started /\ ~(Running /\ FetchFunction.ok /\ FetchInstruction.ok))
       => (pc' = "exited" /\ instruction' = instruction)

C20_Terminates ==
    /\ [][C20_Step]_vars
    /\ C20_Started ~> C20_Ended

\* The three instructions of a program without jump or call have been
\* executed, in order, and the run has ended at its halt.
C20_Witness ==
    /\ file = BaseFile
    /\ pc = "exited"
    /\ C20_JumpFree
    /\ ~is_running
    /\ instruction = [function_index |-> 0, pointer |-> 2, opcode |-> "Halt",
                      operand |-> NoOperand]
    /\ Len(bytecode.functions[1].instructions) = 3

====
